---- MODULE Spec2Model ----
(***************************************************************************)
(* A model of package diff (jakebowkett/go-diff): Objects / ObjectsF and   *)
(* the recursive differ behind them.  Go values are modelled as records    *)
(* carrying their reflect.Kind; the recursion of differ.diff is modelled   *)
(* with an explicit call stack, one action per step of each function.      *)
(***************************************************************************)
EXTENDS Bags, FiniteSets, Integers, Sequences, TLC

(***************************************************************************)
(* Bounds of the model.                                                    *)
(***************************************************************************)
MaxLen == 2   \* longest slice / array in the input universe
MaxInt == 1   \* int leaves range over 0..MaxInt

(***************************************************************************)
(* Go values.  Every value carries the string of its reflect.Kind.         *)
(***************************************************************************)
IntV(i)        == [kind |-> "int", i |-> i]
BoolV(b)       == [kind |-> "bool", b |-> b]
StrV(s)        == [kind |-> "string", s |-> s]
\* a non-nil *int: addr is the pointer's identity, target the pointee
PtrV(a, t)     == [kind |-> "ptr", addr |-> a, target |-> t]
\* a non-nil func(): a value of a type Go cannot compare
FuncV(a)       == [kind |-> "func", addr |-> a]
SliceV(n, es)  == [kind |-> "slice", name |-> n, elems |-> es]
ArrayV(n, es)  == [kind |-> "array", name |-> n, elems |-> es]
MapV(n, f)     == [kind |-> "map", name |-> n, m |-> f]
StructV(n, fs) == [kind |-> "struct", name |-> n, fields |-> fs]
Fld(n, v)     == [name |-> n, v |-> v]
\* the untyped nil interface value: reflect.TypeOf gives a nil Type
NilIface      == [kind |-> "nil"]
\* a nil *reflect.Value: "this field/key/index doesn't exist on this side"
NilPtr        == [kind |-> "absent"]


(***************************************************************************)
(* reflect: the operations the differ performs on a reflect.Value, each    *)
(* with the condition under which the Go runtime panics instead.           *)
(***************************************************************************)
\* dereferencing a nil *reflect.Value to call a method panics
IsNilPtr(v) == v.kind = "absent"

\* Value.Kind().String()
Kind(v) == v.kind

\* Type.Name(): the declared name, "" for an unnamed type
TypeName(v) ==
  IF v.kind \in {"struct", "slice", "array", "map"} THEN v.name
  ELSE IF v.kind = "ptr" THEN "" ELSE v.kind

\* the bytes of the string constants of the input universe
StrBytes(s) ==
  CASE s = "hi"    -> <<104, 105>>
    [] s = "there" -> <<116, 104, 101, 114, 101>>
    [] s = "yo"    -> <<121, 111>>
    [] OTHER       -> <<>>

\* Value.Len is defined for Array, Chan, Map, Slice and String
CanLen(v) == v.kind \in {"slice", "array", "map", "string"}
Len_(v) ==
  CASE v.kind \in {"slice", "array"} -> Len(v.elems)
    [] v.kind = "map"                -> Cardinality(DOMAIN v.m)
    [] v.kind = "string"             -> Len(StrBytes(v.s))
    [] OTHER                         -> 0

\* Value.Index(i) (0-based) is defined for Array, Slice and String, in range
CanIndex(v, i) ==
  /\ v.kind \in {"slice", "array", "string"}
  /\ i >= 0 /\ i < Len_(v)
Index(v, i) ==
  IF v.kind = "string" THEN [kind |-> "uint8", i |-> StrBytes(v.s)[i + 1]]
  ELSE v.elems[i + 1]

\* Value.MapKeys / Value.MapIndex are defined for Map only
CanMapKeys(v) == v.kind = "map"
MapKeys(v) == DOMAIN v.m
MapIndex(v, k) == v.m[k]

\* Value.NumField / Value.Field(i) / Type.Field(i).Name: Struct only
CanNumField(v) == v.kind = "struct"
NumField(v) == Len(v.fields)
CanField(v, i) == v.kind = "struct" /\ i >= 0 /\ i < Len(v.fields)
Field(v, i) == v.fields[i + 1].v
FieldName(v, i) == v.fields[i + 1].name

(***************************************************************************)
(* v1.Interface() != v2.Interface(): comparison of two interface values.   *)
(* Different dynamic types are unequal; identical dynamic types compare by *)
(* value (pointers by address) and panic when the type is not comparable.  *)
(***************************************************************************)
Comparable(v) == v.kind \in {"int", "uint8", "bool", "string", "ptr"}

SameDynType(a, b) ==
  /\ a.kind = b.kind
  /\ a.kind \in {"struct", "slice", "array", "map"} => a.name = b.name

IfaceComparePanics(a, b) == SameDynType(a, b) /\ ~Comparable(a)

IfaceNeq(a, b) ==
  IF ~SameDynType(a, b) THEN TRUE
  ELSE CASE a.kind \in {"int", "uint8"} -> a.i # b.i
         [] a.kind = "bool"             -> a.b # b.b
         [] a.kind = "string"           -> a.s # b.s
         [] a.kind = "ptr"              -> a.addr # b.addr
         [] OTHER                       -> TRUE

(***************************************************************************)
(* fmt and text/template.                                                  *)
(***************************************************************************)
Digit(d) ==
  CASE d = 0 -> "0" [] d = 1 -> "1" [] d = 2 -> "2" [] d = 3 -> "3"
    [] d = 4 -> "4" [] d = 5 -> "5" [] d = 6 -> "6" [] d = 7 -> "7"
    [] d = 8 -> "8" [] OTHER -> "9"

\* the decimal form of a natural number (%d)
RECURSIVE IntStr(_)
IntStr(n) == IF n < 10 THEN Digit(n) ELSE IntStr(n \div 10) \o Digit(n % 10)

\* fmt.Sprintf("%q", s) for the strings of the universe (nothing to escape)
Quote(s) == "\"" \o s \o "\""

\* strings.Join(ss, sep)
RECURSIVE Join(_, _)
Join(ss, sep) ==
  IF Len(ss) = 0 THEN ""
  ELSE IF Len(ss) = 1 THEN ss[1]
  ELSE ss[1] \o sep \o Join(Tail(ss), sep)

\* the map keys of the universe in the sorted order fmt prints them in
KeyOrder == <<"hi", "yo">>

\* fmt's %v of a value
RECURSIVE Sprint(_)
Sprint(v) ==
  CASE v.kind \in {"int", "uint8"} -> IntStr(v.i)
    [] v.kind = "bool"   -> IF v.b THEN "true" ELSE "false"
    [] v.kind = "string" -> v.s
    [] v.kind \in {"ptr", "func"} -> "0x" \o IntStr(v.addr)
    [] v.kind \in {"slice", "array"} ->
         "[" \o Join([i \in 1..Len(v.elems) |-> Sprint(v.elems[i])], " ") \o "]"
    [] v.kind = "map" ->
         "map[" \o Join([i \in 1..Len(SelectSeq(KeyOrder, LAMBDA k : k \in DOMAIN v.m)) |->
                           LET k == SelectSeq(KeyOrder, LAMBDA x : x \in DOMAIN v.m)[i]
                           IN  k \o ":" \o Sprint(v.m[k])], " ") \o "]"
    [] v.kind = "struct" ->
         "{" \o Join([i \in 1..Len(v.fields) |-> Sprint(v.fields[i].v)], " ") \o "}"
    [] OTHER -> "<nil>"

\* text/template's printValue: a pointer is indirected before printing, a
\* func (or chan) value cannot be printed and fails the execution
CanPrint(v) == v.kind # "func"
PrintValue(v) == IF v.kind = "ptr" THEN IntStr(v.target) ELSE Sprint(v)

\* A template is the sequence of its parsed nodes: text, a field action
\* {{.X}}, or an action that does not parse (e.g. an unclosed "{{").
Text(s)     == [t |-> "text", s |-> s]
FieldRef(n) == [t |-> "field", s |-> n]
BadAction   == [t |-> "bad", s |-> "{{"]

DefaultChange ==
  <<FieldRef("Name"), Text(" changed from "), FieldRef("Before"),
    Text(" to "), FieldRef("After")>>
DefaultAdd    == <<FieldRef("Name"), Text(" added "), FieldRef("After")>>
DefaultDelete == <<FieldRef("Name"), Text(" deleted "), FieldRef("Before")>>

\* Format{Change, Add, Delete}; the empty string is the empty node list
Format(c, a, d) == [Change |-> c, Add |-> a, Delete |-> d]

\* the fields of the struct handed to Execute by diffAtom
DataFields == {"Name", "Before", "After"}

\* template.Parse: fails on a malformed action only; a reference to a field
\* the data does not have is not a parse error
ParseFails(tpl) == \E i \in 1..Len(tpl) : tpl[i].t = "bad"

\* Template.Execute: fails at a field action naming a field the data lacks
\* or holding a value that cannot be printed
NodeFails(node, data) ==
  /\ node.t = "field"
  /\ \/ node.s \notin DataFields
     \/ ~CanPrint(data[node.s])
ExecuteFails(tpl, data) == \E i \in 1..Len(tpl) : NodeFails(tpl[i], data)

NodeText(node, data) ==
  IF node.t = "field" THEN PrintValue(data[node.s]) ELSE node.s
Execute(tpl, data) ==
  Join([i \in 1..Len(tpl) |-> NodeText(tpl[i], data)], "")

\* formatInterface: a string is replaced by its quoted form
formatInterface(v) == IF v.kind = "string" THEN StrV(Quote(v.s)) ELSE v

(***************************************************************************)
(* The inputs: a bounded universe of Go values and of Format arguments.    *)
(***************************************************************************)
SeqsUpTo(S, n) == UNION {[1..k -> S] : k \in 0..n}
MapsOver(K, V) == UNION {[D -> V] : D \in SUBSET K}

IntAtoms == {IntV(i) : i \in 0..MaxInt}
SeqAtoms == IntAtoms \cup {FuncV(1)}
\* element values of the nested containers: []string, map[string]int, item
StrSlices == {SliceV("", <<>>), SliceV("", <<StrV("hi")>>)}
IntMaps   == {MapV("", [k \in {"yo"} |-> IntV(1)])}
Items     == {StructV("item", <<Fld("N", IntV(0))>>)}
Inner     == StrSlices \cup IntMaps \cup Items

\* []T, [n]T and named slice types
FlatSlices   == {SliceV("", es) : es \in SeqsUpTo(SeqAtoms, MaxLen)}
Arrays       == {ArrayV("", es) : es \in [1..MaxLen -> IntAtoms]}
NamedSlices  == {SliceV("IntList", es) : es \in SeqsUpTo({IntV(0)}, 1)}
\* [][]string, []map[string]int and []item
NestedSlices ==
  {SliceV("", es) : es \in SeqsUpTo(StrSlices, MaxLen) \cup SeqsUpTo(IntMaps, MaxLen)
                            \cup SeqsUpTo(Items, MaxLen)}

\* map[string]T
FlatMaps   == {MapV("", f) : f \in MapsOver({"yo", "hi"}, IntAtoms \cup {StrV("there")})}
\* map[string]func()
FuncMaps   == {MapV("", f) : f \in MapsOver({"yo", "hi"}, {FuncV(1)})}
NamedMaps  == {MapV("Dict", f) : f \in MapsOver({"yo"}, {IntV(0)})}
NestedMaps == {MapV("", f) : f \in MapsOver({"yo"}, Inner \cup {StructV("empty", <<>>)})}

\* type config / notConfig struct { Debug bool; version string; Timeout int }
ConfigFields(d, v, t) ==
  <<Fld("Debug", BoolV(d)), Fld("version", StrV(v)), Fld("Timeout", IntV(t))>>
Configs    == {StructV("config", ConfigFields(d, v, t)) :
                 d \in BOOLEAN, v \in {"hi", "there"}, t \in 0..MaxInt}
NotConfigs == {StructV("notConfig", ConfigFields(FALSE, "hi", 0))}
\* type hooks struct { P *int; F func() }
Hooks      == {StructV("hooks", <<Fld("P", p), Fld("F", f)>>) :
                 p \in {PtrV(1, 0), PtrV(2, 0)}, f \in {FuncV(1), FuncV(2)}}
\* type refs struct { P *int; q *int }
Refs       == {StructV("refs", <<Fld("P", p), Fld("q", q)>>) :
                 p \in {PtrV(1, 0), PtrV(2, 0)}, q \in {PtrV(1, 0), PtrV(3, 1)}}
\* anonymous struct types struct{A int} and struct{A, B int}
Anonymous  == {StructV("", <<Fld("A", a)>>) : a \in IntAtoms}
                \cup {StructV("", <<Fld("A", IntV(0)), Fld("B", b)>>) : b \in IntAtoms}
\* type nestedTest struct { Mapping map[string][]string }
NestedTests ==
  {StructV("nestedTest", <<Fld("Mapping", MapV("", f))>>) :
     f \in MapsOver({"yo"}, {SliceV("", es) : es \in SeqsUpTo({StrV("hi")}, MaxLen)})}

\* arguments that are no data structure: an int, a *config, the untyped nil
NonObjects == {IntV(0), PtrV(1, 0), NilIface}

Universe ==
  FlatSlices \cup Arrays \cup NamedSlices \cup NestedSlices \cup FlatMaps
    \cup FuncMaps \cup NamedMaps \cup NestedMaps \cup Configs \cup NotConfigs \cup Hooks
    \cup Refs \cup Anonymous \cup NestedTests \cup NonObjects

\* the arguments ObjectsF is called with
FUniverse ==
  Configs \cup NotConfigs \cup NonObjects
    \cup FlatSlices
    \cup {MapV("", f) : f \in MapsOver({"yo", "hi"}, {StrV("there")})}

\* "{{.Before}} --> {{.After}}"
Arrow == <<FieldRef("Before"), Text(" --> "), FieldRef("After")>>
\* "{{.Name}}: {{.Apple}}"
Apple == <<FieldRef("Name"), Text(": "), FieldRef("Apple")>>

\* "{{.Name}}: {{.After}}", "{{.Name}}: {{.Before}}{{.After}}" and
\* "{{.Name}}: {{.Before}}"
ColonAfter  == <<FieldRef("Name"), Text(": "), FieldRef("After")>>
ColonBoth   == <<FieldRef("Name"), Text(": "), FieldRef("Before"), FieldRef("After")>>
ColonBefore == <<FieldRef("Name"), Text(": "), FieldRef("Before")>>

Formats ==
  { Format(<<>>, <<>>, <<>>),
    Format(Arrow, Arrow, Arrow),
    Format(ColonAfter, ColonBoth, ColonBefore),
    Format(Apple, Apple, Apple),
    Format(Apple, <<>>, <<>>),
    Format(<<>>, Apple, <<>>),
    Format(<<>>, <<>>, <<BadAction>>) }

(***************************************************************************)
(* State.                                                                  *)
(***************************************************************************)
VARIABLES
  api,        \* the entry point called: "Objects" or "ObjectsF"
  argFormat,  \* ObjectsF's format argument
  before,     \* the argument before
  after,      \* the argument after
  pc,         \* where the call is: idle, objects, parse, run, done, panic
  format,     \* objects' format parameter
  templates,  \* differ.templates: the parsed templates, by name
  changes,    \* differ.changes
  path,       \* differ.path
  stack,      \* the call stack of differ.diff and the functions below it
  err,        \* the error the last returned call returned ("" is nil)
  result      \* what the entry point returned: [changes, err]

vars == <<api, argFormat, before, after, pc, format, templates, changes,
          path, stack, err, result>>

NoFormat    == Format(<<>>, <<>>, <<>>)
NoTemplates == [change |-> <<>>, add |-> <<>>, delete |-> <<>>]
NoResult    == [changes |-> <<>>, err |-> ""]
NoAlign     == [k \in {} |-> [before |-> FALSE, after |-> FALSE]]

\* a stack frame: the function, its arguments and its local variables
Frame(fn, v1, v2) ==
  [fn |-> fn, v1 |-> v1, v2 |-> v2, phase |-> "enter",
   i |-> 0, n |-> 0, m |-> NoAlign, todo |-> {}, key |-> ""]

Top == stack[Len(stack)]
Running(fn, phase) ==
  /\ pc = "run"
  /\ Len(stack) > 0
  /\ Top.fn = fn
  /\ Top.phase = phase

SetTop(f) == [stack EXCEPT ![Len(stack)] = f]
Pop       == SubSeq(stack, 1, Len(stack) - 1)

Init ==
  /\ \/ /\ api = "Objects"
        /\ argFormat = NoFormat
        /\ before \in Universe
        /\ after \in Universe
     \/ /\ api = "ObjectsF"
        /\ argFormat \in Formats
        /\ before \in FUniverse
        /\ after \in FUniverse
  /\ pc = "idle"
  /\ format = NoFormat
  /\ templates = NoTemplates
  /\ changes = <<>>
  /\ path = <<>>
  /\ stack = <<>>
  /\ err = ""
  /\ result = NoResult

\* a run-time panic: the call never returns
Panic ==
  /\ pc' = "panic"
  /\ UNCHANGED <<api, argFormat, before, after, format, templates, changes,
                 path, stack, err, result>>

\* return (cs, e) from Objects / ObjectsF
Return(cs, e) ==
  /\ pc' = "done"
  /\ result' = [changes |-> cs, err |-> e]
  /\ UNCHANGED <<api, argFormat, before, after, format, templates, changes,
                 path, stack, err>>

(***************************************************************************)
(* Objects, ObjectsF and objects.                                          *)
(***************************************************************************)
Objects ==
  /\ pc = "idle"
  /\ api = "Objects"
  /\ format' = Format(DefaultChange, DefaultAdd, DefaultDelete)
  /\ result' = NoResult
  /\ pc' = "objects"
  /\ UNCHANGED <<api, argFormat, before, after, templates, changes, path,
                 stack, err>>

\* no substitution: an empty template string stays empty
OrDefaultNone(tpl, def) == tpl

\* ObjectsF, lines 99-107: an empty string is replaced by the default
OrDefault(tpl, def) == IF tpl = <<>> THEN def ELSE tpl

ObjectsF ==
  /\ pc = "idle"
  /\ api = "ObjectsF"
  /\ format' = Format(OrDefault(argFormat.Change, DefaultChange),
                      OrDefault(argFormat.Add, DefaultAdd),
                      OrDefault(argFormat.Delete, DefaultDelete))
  /\ result' = NoResult
  /\ pc' = "objects"
  /\ UNCHANGED <<api, argFormat, before, after, templates, changes, path,
                 stack, err>>

objectKinds == {"struct", "array", "slice", "map"}

\* reflect.TypeOf(nil) is the nil Type; calling Kind on it panics
TypeIsNil(v) == v.kind = "nil"

\* isObj that accepts every kind
isObjAny(t1, t2) == ""

\* isObj: "" when both kinds are object kinds, else the error
isObj(t1, t2) ==
  IF Kind(t1) \notin objectKinds THEN "argument before was of wrong kind"
  ELSE IF Kind(t2) \notin objectKinds THEN "argument after was of wrong kind"
  ELSE ""
\* isObj evaluates t1.Kind(), and t2.Kind() only when t1 passed
isObjPanics(t1, t2) ==
  \/ TypeIsNil(t1)
  \/ Kind(t1) \in objectKinds /\ TypeIsNil(t2)

\* sameKind that accepts every pair of kinds
sameKindAny(t1, t2) == ""

sameKind(t1, t2) ==
  IF Kind(t1) # Kind(t2) THEN "objects must be same kind" ELSE ""

\* the check of the names of two named records only
sameNamedTypeRecords(t1, t2) ==
  IF Kind(t1) = "struct" /\ TypeName(t1) # "" /\ TypeName(t2) # ""
       /\ TypeName(t1) # TypeName(t2)
    THEN "objects must be same type" ELSE ""

sameNamedType(t1, t2) ==
  IF TypeName(t1) # TypeName(t2) THEN "objects must be same type" ELSE ""

\* objects, lines 113-124: the three checks of the arguments' types
objectsValidate ==
  /\ pc = "objects"
  /\ IF isObjPanics(before, after) THEN Panic
     ELSE IF isObj(before, after) # "" THEN Return(<<>>, isObj(before, after))
     ELSE IF sameKind(before, after) # "" THEN Return(<<>>, sameKind(before, after))
     ELSE IF sameNamedType(before, after) # ""
       THEN Return(<<>>, sameNamedType(before, after))
     ELSE /\ pc' = "parse"
          /\ UNCHANGED <<api, argFormat, before, after, format, templates,
                         changes, path, stack, err, result>>

\* objects, lines 126-143: parse the three templates, then call d.diff
objectsParse ==
  /\ pc = "parse"
  /\ IF ParseFails(format.Change) THEN Return(<<>>, "template: change")
     ELSE IF ParseFails(format.Add) THEN Return(<<>>, "template: add")
     ELSE IF ParseFails(format.Delete) THEN Return(<<>>, "template: delete")
     ELSE \* d := differ{templates: t}: changes and path are nil
          /\ templates' = [change |-> format.Change, add |-> format.Add,
                           delete |-> format.Delete]
          /\ changes' = <<>>
          /\ path' = <<>>
          /\ err' = ""
          /\ stack' = <<Frame("diff", before, after)>>
          /\ pc' = "run"
          /\ UNCHANGED <<api, argFormat, before, after, format, result>>

\* objects that returns d.changes also when d.diff returned an error
objectsChangesAlways(cs, e) == cs

\* objects, lines 144-148: the change list returned, nil with an error
objectsChanges(cs, e) == IF e # "" THEN <<>> ELSE cs

\* objects, lines 144-148: d.diff has returned
objectsReturn ==
  /\ pc = "run"
  /\ stack = <<>>
  /\ Return(objectsChanges(changes, err), err)

\* the caller's next call, as the loop of the tests makes it: here with the
\* two arguments exchanged.  What the finished call left behind stays where
\* it is until the new call assigns it.
CallAgain ==
  /\ pc = "done"
  /\ pc' = "idle"
  /\ before' = after
  /\ after' = before
  /\ UNCHANGED <<api, argFormat, format, templates, changes, path, stack,
                 err, result>>

(***************************************************************************)
(* differ: diff, diffStruct, diffSequence, diffMap, diffAtom, render.      *)
(***************************************************************************)
Fixed == <<api, argFormat, before, after, pc, format, templates, result>>

\* popPath without the pop: the segment of a finished subtree stays
popPathKeeps(p) == p

popPath(p) == IF Len(p) = 0 THEN p ELSE SubSeq(p, 1, Len(p) - 1)

\* call d.diff(v1, v2) from the frame on top, after pushing seg on the path
CallDiff(seg, v1, v2) ==
  /\ path' = Append(path, seg)
  /\ stack' = Append(SetTop([Top EXCEPT !.phase = "called"]), Frame("diff", v1, v2))
  /\ UNCHANGED <<changes, err>>
  /\ UNCHANGED Fixed

\* return e from the function on top of the stack
ReturnErr(e) ==
  /\ stack' = Pop
  /\ err' = e
  /\ UNCHANGED <<changes, path>>
  /\ UNCHANGED Fixed

\* after "err := d.diff(..)": return err if it is not nil, else d.popPath()
\* and go on with the loop
AfterDiff(step) ==
  IF err # "" THEN ReturnErr(err)
  ELSE /\ path' = popPath(path)
       /\ stack' = SetTop([Top EXCEPT !.phase = "loop", !.i = @ + step])
       /\ UNCHANGED <<changes, err>>
       /\ UNCHANGED Fixed

\* diff's switch on the kind
diffBranch(kind) ==
  CASE kind = "struct"             -> "diffStruct"
    [] kind = "map"                -> "diffMap"
    [] kind \in {"array", "slice"} -> "diffSequence"
    [] OTHER                       -> "diffAtom"

\* diff's kind: v1's, or v2's when v1 is nil
diffKind(v1, v2) == IF IsNilPtr(v1) THEN Kind(v2) ELSE Kind(v1)

Diff ==
  /\ Running("diff", "enter")
  /\ IF IsNilPtr(Top.v1) /\ IsNilPtr(Top.v2) THEN Panic
     ELSE /\ stack' = SetTop(Frame(diffBranch(diffKind(Top.v1, Top.v2)),
                                   Top.v1, Top.v2))
          /\ UNCHANGED <<changes, path, err>>
          /\ UNCHANGED Fixed

\* diffStruct, lines 202-218
structFields(v1, v2) == IF IsNilPtr(v1) THEN NumField(v2) ELSE NumField(v1)

DiffStructEnter ==
  /\ Running("diffStruct", "enter")
  /\ stack' = SetTop([Top EXCEPT !.phase = "loop",
                                 !.n = structFields(Top.v1, Top.v2)])
  /\ UNCHANGED <<changes, path, err>>
  /\ UNCHANGED Fixed

\* the after field read at index 0 instead of i
structF2First(v1, v2, i) == IF IsNilPtr(v2) THEN NilPtr ELSE Field(v2, 0)

\* diffStruct, lines 226-239: the name and the two fields of iteration i
structName(v1, v2, i) == IF IsNilPtr(v1) THEN FieldName(v2, i) ELSE FieldName(v1, i)
structF1(v1, v2, i)   == IF IsNilPtr(v1) THEN NilPtr ELSE Field(v1, i)
structF2(v1, v2, i)   == IF IsNilPtr(v2) THEN NilPtr ELSE Field(v2, i)
structPanics(v1, v2, i) ==
  \/ ~IsNilPtr(v1) /\ ~CanField(v1, i)
  \/ ~IsNilPtr(v2) /\ ~CanField(v2, i)

\* diffStruct, lines 220-249: the loop head and the call of d.diff
DiffStructLoop ==
  /\ Running("diffStruct", "loop")
  /\ IF Top.i < Top.n
       THEN IF structPanics(Top.v1, Top.v2, Top.i) THEN Panic
            ELSE CallDiff("." \o structName(Top.v1, Top.v2, Top.i),
                          structF1(Top.v1, Top.v2, Top.i),
                          structF2(Top.v1, Top.v2, Top.i))
       ELSE ReturnErr("")

DiffStructNext ==
  /\ Running("diffStruct", "called")
  /\ AfterDiff(1)

\* diffSequence, lines 260-263
Max(a, b) == IF b > a THEN b ELSE a
seqEnterPanics(v1, v2) ==
  \/ IsNilPtr(v1) \/ IsNilPtr(v2)
  \/ ~CanLen(v1) \/ ~CanLen(v2)
\* the length of before alone: elements past it are never visited
longestBefore(v1, v2) == Len_(v1)
longest(v1, v2) == Max(Len_(v1), Len_(v2))

DiffSequenceEnter ==
  /\ Running("diffSequence", "enter")
  /\ IF seqEnterPanics(Top.v1, Top.v2) THEN Panic
     ELSE /\ stack' = SetTop([Top EXCEPT !.phase = "loop",
                                         !.n = longest(Top.v1, Top.v2)])
          /\ UNCHANGED <<changes, path, err>>
          /\ UNCHANGED Fixed

\* diffSequence, lines 270-284: the two elements of iteration i
seqElem1(v1, v2, i) == IF i > Len_(v1) - 1 THEN NilPtr ELSE Index(v1, i)
seqElem2(v1, v2, i) ==
  IF i > Len_(v1) - 1 THEN Index(v2, i)
  ELSE IF i > Len_(v2) - 1 THEN NilPtr ELSE Index(v2, i)
seqPanics(v1, v2, i) ==
  IF i > Len_(v1) - 1 THEN ~CanIndex(v2, i)
  ELSE IF i > Len_(v2) - 1 THEN ~CanIndex(v1, i)
  ELSE ~CanIndex(v1, i) \/ ~CanIndex(v2, i)

DiffSequenceLoop ==
  /\ Running("diffSequence", "loop")
  /\ IF Top.i < Top.n
       THEN IF seqPanics(Top.v1, Top.v2, Top.i) THEN Panic
            ELSE CallDiff("[" \o IntStr(Top.i) \o "]",
                          seqElem1(Top.v1, Top.v2, Top.i),
                          seqElem2(Top.v1, Top.v2, Top.i))
       ELSE ReturnErr("")

DiffSequenceNext ==
  /\ Running("diffSequence", "called")
  /\ AfterDiff(1)

\* alignMapKeys: every key of either map, with the sides it is present on
alignPanics(m1, m2) ==
  \/ IsNilPtr(m1) \/ IsNilPtr(m2)
  \/ ~CanMapKeys(m1) \/ ~CanMapKeys(m2)
\* without the loop over k2: keys of after alone are missing
alignBeforeOnly(m1, m2) ==
  [k \in MapKeys(m1) |-> [before |-> TRUE, after |-> k \in MapKeys(m2)]]
alignMapKeys(m1, m2) ==
  [k \in MapKeys(m1) \cup MapKeys(m2) |->
     [before |-> k \in MapKeys(m1), after |-> k \in MapKeys(m2)]]

DiffMapEnter ==
  /\ Running("diffMap", "enter")
  /\ IF alignPanics(Top.v1, Top.v2) THEN Panic
     ELSE /\ stack' = SetTop([Top EXCEPT !.phase = "loop",
                                         !.m = alignMapKeys(Top.v1, Top.v2),
                                         !.todo = DOMAIN alignMapKeys(Top.v1, Top.v2)])
          /\ UNCHANGED <<changes, path, err>>
          /\ UNCHANGED Fixed

\* diffMap, lines 306-320: the two values of key k, by its flags
\* the value of before never looked up
mapElem1Absent(v1, ok, k) == NilPtr

mapElem1(v1, ok, k) == IF ~ok.before THEN NilPtr ELSE MapIndex(v1, k)
mapElem2(v2, ok, k) ==
  IF ~ok.before THEN MapIndex(v2, k)
  ELSE IF ~ok.after THEN NilPtr ELSE MapIndex(v2, k)
\* diffMap, lines 322-323: the key's path segment
mapSegment(k) == "[" \o PrintValue(formatInterface(StrV(k))) \o "]"

\* diffMap, lines 301-331: "range m" takes the keys in any order
DiffMapLoop ==
  /\ Running("diffMap", "loop")
  /\ IF Top.todo # {}
       THEN \E k \in Top.todo :
              /\ path' = Append(path, mapSegment(k))
              /\ stack' = Append(SetTop([Top EXCEPT !.phase = "called",
                                                    !.key = k,
                                                    !.todo = @ \ {k}]),
                                 Frame("diff", mapElem1(Top.v1, Top.m[k], k),
                                       mapElem2(Top.v2, Top.m[k], k)))
              /\ UNCHANGED <<changes, err>>
              /\ UNCHANGED Fixed
       ELSE ReturnErr("")

DiffMapNext ==
  /\ Running("diffMap", "called")
  /\ AfterDiff(0)

\* the templates of the two one-sided cases exchanged
atomTemplateSwapped(v1, v2) ==
  IF IsNilPtr(v1) THEN "delete"
  ELSE IF IsNilPtr(v2) THEN "add"
  ELSE IF IfaceNeq(v1, v2) THEN "change"
  ELSE ""

\* diffAtom, lines 370-385: the template chosen, "" for no change
atomTemplate(v1, v2) ==
  IF IsNilPtr(v1) THEN "add"
  ELSE IF IsNilPtr(v2) THEN "delete"
  ELSE IF IfaceNeq(v1, v2) THEN "change"
  ELSE ""
\* the third case evaluates v1.Interface() != v2.Interface()
atomPanics(v1, v2) ==
  /\ ~IsNilPtr(v1)
  /\ ~IsNilPtr(v2)
  /\ IfaceComparePanics(v1, v2)
\* diffAtom, lines 360-382: the struct handed to the template
atomData(p, v1, v2) ==
  [Name   |-> StrV(Join(p, "")),
   Before |-> IF IsNilPtr(v1) THEN StrV("") ELSE formatInterface(v1),
   After  |-> IF IsNilPtr(v2) THEN StrV("") ELSE formatInterface(v2)]

\* render: execute the template, append its output to d.changes
render(tmplName, data) ==
  IF ExecuteFails(templates[tmplName], data)
    THEN ReturnErr("template: execute")
    ELSE /\ changes' = Append(changes, Execute(templates[tmplName], data))
         /\ stack' = Pop
         /\ err' = ""
         /\ UNCHANGED path
         /\ UNCHANGED Fixed

DiffAtom ==
  /\ Running("diffAtom", "enter")
  /\ IF atomPanics(Top.v1, Top.v2) THEN Panic
     ELSE IF atomTemplate(Top.v1, Top.v2) = "" THEN ReturnErr("")
     ELSE render(atomTemplate(Top.v1, Top.v2), atomData(path, Top.v1, Top.v2))

Next ==
  \/ Objects
  \/ ObjectsF
  \/ objectsValidate
  \/ objectsParse
  \/ objectsReturn
  \/ CallAgain
  \/ Diff
  \/ DiffStructEnter
  \/ DiffStructLoop
  \/ DiffStructNext
  \/ DiffSequenceEnter
  \/ DiffSequenceLoop
  \/ DiffSequenceNext
  \/ DiffMapEnter
  \/ DiffMapLoop
  \/ DiffMapNext
  \/ DiffAtom

Spec == Init /\ [][Next]_vars

(***************************************************************************)
(* The properties.  The expected leaves are written out from the claims,   *)
(* with the default templates' wording.                                    *)
(***************************************************************************)
\* the value as a leaf shows it: a string quoted, a pointer by its target
Shown(v) == IF v.kind = "string" THEN Quote(v.s) ELSE PrintValue(v)
ChangedLeaf(name, x, y) == name \o " changed from " \o Shown(x) \o " to " \o Shown(y)
AddedLeaf(name, y)      == name \o " added " \o Shown(y)
DeletedLeaf(name, x)    == name \o " deleted " \o Shown(x)

\* an atomic value of a type Go's == is defined on
IsPlainAtom(v) == v.kind \in {"int", "uint8", "bool", "string", "ptr"}
\* a record, map or sequence
IsObject(v)    == v.kind \in {"struct", "slice", "array", "map"}

\* the strings of a sequence that are not empty, in order
NonEmpty(ss) == SelectSeq(ss, LAMBDA x : x # "")
\* the multiset of the elements of a sequence
SeqBag(ss) ==
  [x \in {ss[i] : i \in DOMAIN ss} |-> Cardinality({i \in DOMAIN ss : ss[i] = x})]

Called(a)  == api = a
Returned   == pc = "done"
Crashed    == pc = "panic"
ReturnedOk(cs) == result = [changes |-> cs, err |-> ""]

\* some leaf of v is of a type Go's == is not defined on
RECURSIVE HasUncomparable(_)
HasUncomparable(v) ==
  CASE v.kind = "struct" -> \E i \in 1..Len(v.fields) : HasUncomparable(v.fields[i].v)
    [] v.kind \in {"slice", "array"} -> \E i \in 1..Len(v.elems) : HasUncomparable(v.elems[i])
    [] v.kind = "map" -> \E k \in DOMAIN v.m : HasUncomparable(v.m[k])
    [] OTHER -> ~IsPlainAtom(v)

\* C1: Reflexivity: for every x that passes the shape validator, Objects(x, x)
\* does not crash and returns an empty change list and no error.
C1_Reflexivity ==
  (Called("Objects") /\ before = after /\ IsObject(before))
    => /\ ~Crashed
       /\ Returned => ReturnedOk(<<>>)

\* C1, on the values whose leaves Go can all compare: the same statement
C1_ReflexivityComparable ==
  (Called("Objects") /\ before = after /\ IsObject(before)
     /\ ~HasUncomparable(before))
    => /\ ~Crashed
       /\ Returned => ReturnedOk(<<>>)

\* two records of the same type (same name, same declared fields) whose
\* fields all hold atomic values Go can compare
FlatRecords(a, b) ==
  /\ a.kind = "struct" /\ b.kind = "struct"
  /\ a.name = b.name
  /\ Len(a.fields) = Len(b.fields)
  /\ \A i \in 1..Len(a.fields) :
       /\ a.fields[i].name = b.fields[i].name
       /\ IsPlainAtom(a.fields[i].v) /\ IsPlainAtom(b.fields[i].v)

\* one changed leaf per field whose two values differ, in declared order
RecordLeaves(a, b) ==
  NonEmpty([i \in 1..Len(a.fields) |->
              IF a.fields[i].v # b.fields[i].v
                THEN ChangedLeaf("." \o a.fields[i].name, a.fields[i].v, b.fields[i].v)
                ELSE ""])

\* C2: for two records of the same type with atomic fields Objects returns
\* exactly one changed leaf per field (exported or not) whose values differ,
\* none for a field whose values are equal, in declared field order.
C2_RecordLeaves ==
  (Called("Objects") /\ FlatRecords(before, after))
    => /\ ~Crashed
       /\ Returned => ReturnedOk(RecordLeaves(before, after))

\* C2 witness: a call on two configs returned two leaves, one of them of the
\* unexported field, and none for the third field
C2_Witness ==
  /\ Called("Objects") /\ Returned /\ FlatRecords(before, after)
  /\ before.name = "config"
  /\ before.fields[1].v = after.fields[1].v
  /\ Len(result.changes) = 2
  /\ result.changes[1] = ChangedLeaf(".version", before.fields[2].v, after.fields[2].v)

\* two sequences of the same kind and name whose elements are all atomic
\* values Go can compare
FlatSequences(a, b) ==
  /\ a.kind \in {"slice", "array"} /\ b.kind = a.kind
  /\ a.name = b.name
  /\ \A i \in 1..Len(a.elems) : IsPlainAtom(a.elems[i])
  /\ \A i \in 1..Len(b.elems) : IsPlainAtom(b.elems[i])

Min(x, y) == IF x < y THEN x ELSE y

\* the leaf of index i (0-based) of two sequences, "" for none
SequenceLeaf(a, b, i) ==
  LET m == Len(a.elems)
      n == Len(b.elems)
      name == "[" \o IntStr(i) \o "]"
  IN  IF i < Min(m, n)
        THEN IF a.elems[i + 1] # b.elems[i + 1]
               THEN ChangedLeaf(name, a.elems[i + 1], b.elems[i + 1])
               ELSE ""
        ELSE IF m > n THEN DeletedLeaf(name, a.elems[i + 1])
             ELSE AddedLeaf(name, b.elems[i + 1])

SequenceLeaves(a, b) ==
  NonEmpty([j \in 1..Max(Len(a.elems), Len(b.elems)) |-> SequenceLeaf(a, b, j - 1)])

\* C3: sequence diffing is positional: below the shorter length a changed leaf
\* iff the elements at the same index differ, from there to the longer length
\* one deleted (before longer) or added (after longer) leaf per index, all in
\* ascending index order.
C3_Positional ==
  (Called("Objects") /\ FlatSequences(before, after))
    => /\ ~Crashed
       /\ Returned => ReturnedOk(SequenceLeaves(before, after))

\* C3 witness: before is longer than after and differs from it at index 0;
\* the call returned the changed leaf and then the deleted leaf
C3_Witness ==
  /\ Called("Objects") /\ Returned /\ FlatSequences(before, after)
  /\ Len(before.elems) = 2 /\ Len(after.elems) = 1
  /\ result.changes = <<ChangedLeaf("[0]", before.elems[1], after.elems[1]),
                        DeletedLeaf("[1]", before.elems[2])>>

\* two maps of the same name whose values are all atomic values Go can compare
FlatMapPair(a, b) ==
  /\ a.kind = "map" /\ b.kind = "map"
  /\ a.name = b.name
  /\ \A k \in DOMAIN a.m : IsPlainAtom(a.m[k])
  /\ \A k \in DOMAIN b.m : IsPlainAtom(b.m[k])

\* the leaf of key k of two maps, "" for none
MapLeaf(a, b, k) ==
  LET name == "[" \o Quote(k) \o "]"
  IN  IF k \notin DOMAIN b.m THEN DeletedLeaf(name, a.m[k])
      ELSE IF k \notin DOMAIN a.m THEN AddedLeaf(name, b.m[k])
      ELSE IF a.m[k] # b.m[k] THEN ChangedLeaf(name, a.m[k], b.m[k])
      ELSE ""

MapLeaves(a, b) ==
  {MapLeaf(a, b, k) : k \in DOMAIN a.m \cup DOMAIN b.m} \ {""}

\* a diffMap frame past alignMapKeys holds every key of either map exactly
\* once, flagged with the sides it is on, and has yet to visit a subset of them
AlignedFrame(f) ==
  (f.fn = "diffMap" /\ f.phase # "enter")
    => /\ DOMAIN f.m = DOMAIN f.v1.m \cup DOMAIN f.v2.m
       /\ \A k \in DOMAIN f.m : /\ f.m[k].before <=> k \in DOMAIN f.v1.m
                                /\ f.m[k].after <=> k \in DOMAIN f.v2.m
       /\ f.todo \subseteq DOMAIN f.m

\* C4: map diffing visits every key of the union of the key sets once, flagged
\* with the sides it is present on: one deleted leaf per key only in before,
\* one added leaf per key only in after, a changed leaf iff the values of a
\* common key differ; the same multiset of leaves in every iteration order.
C4_MapUnion ==
  (Called("Objects") /\ FlatMapPair(before, after))
    => /\ ~Crashed
       /\ \A j \in 1..Len(stack) : AlignedFrame(stack[j])
       /\ Returned => /\ result.err = ""
                      /\ SeqBag(result.changes) = SetToBag(MapLeaves(before, after))

\* C4 witness: one key only in before, one only in after; the call returned
\* the added leaf before the deleted one
C4_Witness ==
  /\ Called("Objects") /\ Returned /\ FlatMapPair(before, after)
  /\ DOMAIN before.m = {"yo"} /\ DOMAIN after.m = {"hi"}
  /\ result.changes = <<AddedLeaf("[\"hi\"]", after.m["hi"]),
                        DeletedLeaf("[\"yo\"]", before.m["yo"])>>

\* the sides of a child position: the value, or NilPtr where it is missing
FieldOf(v, i) ==
  IF v.kind = "struct" /\ i <= Len(v.fields) THEN v.fields[i].v ELSE NilPtr
ElemOf(v, i) ==
  IF v.kind \in {"slice", "array"} /\ i <= Len(v.elems) THEN v.elems[i] ELSE NilPtr
ValueOf(v, k) ==
  IF v.kind = "map" /\ k \in DOMAIN v.m THEN v.m[k] ELSE NilPtr
Present(a, b) == IF a.kind = "absent" THEN b ELSE a
KeysOf(v) == IF v.kind = "map" THEN DOMAIN v.m ELSE {}
LenOf(v)  == IF v.kind \in {"slice", "array"} THEN Len(v.elems) ELSE 0

\* the leaves of the sections 4.3 and 4.4 for two sides of one shape, either
\* of which may be missing: the traversal by the present side's shape
RECURSIVE TreeLeaves(_, _, _)
TreeLeaves(a, b, p) ==
  LET s == Present(a, b)
  IN  CASE s.kind = "struct" ->
             UNION {TreeLeaves(FieldOf(a, i), FieldOf(b, i), p \o "." \o s.fields[i].name) :
                      i \in 1..Len(s.fields)}
        [] s.kind \in {"slice", "array"} ->
             UNION {TreeLeaves(ElemOf(a, i), ElemOf(b, i), p \o "[" \o IntStr(i - 1) \o "]") :
                      i \in 1..Max(LenOf(a), LenOf(b))}
        [] s.kind = "map" ->
             UNION {TreeLeaves(ValueOf(a, k), ValueOf(b, k), p \o "[" \o Quote(k) \o "]") :
                      k \in KeysOf(a) \cup KeysOf(b)}
        [] OTHER ->
             IF a.kind = "absent" THEN {AddedLeaf(p, b)}
             ELSE IF b.kind = "absent" THEN {DeletedLeaf(p, a)}
             ELSE IF a # b THEN {ChangedLeaf(p, a, b)}
             ELSE {}

\* wherever both sides are present they have the same shape
RECURSIVE SameShape(_, _)
SameShape(a, b) ==
  \/ a.kind = "absent"
  \/ b.kind = "absent"
  \/ /\ a.kind = b.kind
     /\ CASE a.kind = "struct" ->
               /\ a.name = b.name
               /\ Len(a.fields) = Len(b.fields)
               /\ \A i \in 1..Len(a.fields) :
                    /\ a.fields[i].name = b.fields[i].name
                    /\ SameShape(a.fields[i].v, b.fields[i].v)
          [] a.kind \in {"slice", "array"} ->
               \A i \in 1..Min(Len(a.elems), Len(b.elems)) : SameShape(a.elems[i], b.elems[i])
          [] a.kind = "map" ->
               \A k \in DOMAIN a.m \cap DOMAIN b.m : SameShape(a.m[k], b.m[k])
          [] OTHER -> IsPlainAtom(a)

\* some node is present on one side only and its value is a container
RECURSIVE OneSidedContainer(_, _)
OneSidedContainer(a, b) ==
  IF a.kind = "absent" \/ b.kind = "absent" THEN IsObject(Present(a, b))
  ELSE CASE a.kind = "struct" ->
              \E i \in 1..Len(a.fields) : OneSidedContainer(FieldOf(a, i), FieldOf(b, i))
         [] a.kind \in {"slice", "array"} ->
              \E i \in 1..Max(LenOf(a), LenOf(b)) : OneSidedContainer(ElemOf(a, i), ElemOf(b, i))
         [] a.kind = "map" ->
              \E k \in KeysOf(a) \cup KeysOf(b) : OneSidedContainer(ValueOf(a, k), ValueOf(b, k))
         [] OTHER -> FALSE

\* C5: a node present on only one side whose value is a record, map or
\* sequence is descended into by the present side's shape: the call returns
\* without error, with one added or deleted leaf per atomic leaf of the
\* subtree.
C5_OneSidedDescent ==
  (Called("Objects") /\ IsObject(before) /\ SameShape(before, after)
     /\ TypeName(before) = TypeName(after)
     /\ ~HasUncomparable(before) /\ ~HasUncomparable(after)
     /\ OneSidedContainer(before, after))
    => /\ ~Crashed
       /\ Returned => /\ result.err = ""
                      /\ SeqBag(result.changes) = SetToBag(TreeLeaves(before, after, ""))

\* the path segment of the child a frame is in: the field's name, the index
\* or the quoted key
SegmentOf(f) ==
  CASE f.fn = "diffStruct"   -> "." \o Present(f.v1, f.v2).fields[f.i + 1].name
    [] f.fn = "diffSequence" -> "[" \o IntStr(f.i) \o "]"
    [] f.fn = "diffMap"      -> "[" \o Quote(f.key) \o "]"
    [] OTHER                 -> ""

\* the frames that are inside a call of d.diff for one of their children
Ancestors == SelectSeq(stack, LAMBDA f : f.phase = "called")

\* C6: while no error is being returned the path stack is exactly the
\* segments of the nodes the traversal is inside of, root first, so the Name
\* of a leaf is the concatenation of its ancestors' segments: no segment of
\* a finished sibling subtree is missing, duplicated or left over; and the
\* leaves a call returns carry exactly the root-to-leaf paths of the tree.
C6_PathIsAncestors ==
  /\ (pc = "run" /\ err = "")
       => path = [j \in 1..Len(Ancestors) |-> SegmentOf(Ancestors[j])]
  /\ (Called("Objects") /\ Returned /\ result.err = ""
        /\ SameShape(before, after)
        /\ ~HasUncomparable(before) /\ ~HasUncomparable(after))
       => SeqBag(result.changes) = SetToBag(TreeLeaves(before, after, ""))

\* C6 witness: diffAtom is about to render the second element of a slice in
\* a map in a record, after the first element's subtree was finished
C6_Witness ==
  /\ Running("diffAtom", "enter")
  /\ err = ""
  /\ path = <<".Mapping", "[\"yo\"]", "[1]">>
  /\ Len(stack) = 4

\* two typed arguments of different kinds, or two records of different names
ShapeMismatch(a, b) ==
  /\ a.kind # "nil" /\ b.kind # "nil"
  /\ \/ a.kind # b.kind
     \/ /\ a.kind = "struct" /\ b.kind = "struct"
        /\ a.name # "" /\ b.name # "" /\ a.name # b.name

\* the call has got past the checks of the arguments
Traversing == pc \in {"parse", "run"} \/ stack # <<>> \/ changes # <<>>

Rejected == result.err # "" /\ result.changes = <<>>

\* C7: when before and after have different shapes, or are two records with
\* different declared type names, Objects returns an error and a nil change
\* list, and no traversal takes place.
C7_ShapeMismatch ==
  (Called("Objects") /\ ShapeMismatch(before, after))
    => /\ ~Crashed
       /\ ~Traversing
       /\ Returned => Rejected

\* C7 witness: a config and a notConfig were rejected for their names
C7_Witness ==
  /\ Called("Objects") /\ Returned
  /\ before.kind = "struct" /\ after.kind = "struct"
  /\ before.name = "config" /\ after.name = "notConfig"
  /\ result.err = "objects must be same type"

\* C7 witness of the other case: a record and a sequence were rejected
C7_WitnessKinds ==
  /\ Called("Objects") /\ Returned
  /\ before.kind = "struct" /\ after.kind = "array"
  /\ result.err = "objects must be same kind"

\* a typed argument that is no struct, map, slice or array
NotObject(v) == v.kind \notin objectKinds /\ v.kind # "nil"

\* C8: Objects returns an error and a nil change list whenever before or
\* after is a (typed) value that is no struct, map, slice or array, such as
\* two pointers: the traversal never starts at an atomic root.
C8_AtomicRoot ==
  (Called("Objects") /\ before.kind # "nil" /\ after.kind # "nil"
     /\ (NotObject(before) \/ NotObject(after)))
    => /\ ~Crashed
       /\ ~Traversing
       /\ Returned => Rejected

\* C8 witness: two equal pointers were rejected
C8_Witness ==
  /\ Called("Objects") /\ Returned
  /\ before.kind = "ptr" /\ after = before
  /\ Rejected

\* C9: when one of the two arguments is the untyped nil, Objects completes
\* and returns a non-nil error with a nil change list: no crash.
C9_NilArgument ==
  (Called("Objects") /\ (before = NilIface \/ after = NilIface))
    => /\ ~Crashed
       /\ Returned => Rejected

\* a template of the format refers to a field other than Name, Before, After
Unsupported(tpl) ==
  \E i \in 1..Len(tpl) : tpl[i].t = "field" /\ tpl[i].s \notin {"Name", "Before", "After"}
HasUnsupported(f) == Unsupported(f.Change) \/ Unsupported(f.Add) \/ Unsupported(f.Delete)

\* C10: a supplied template that refers to a placeholder other than Name,
\* Before and After makes ObjectsF return an error, also when before and
\* after do not differ and no leaf of that kind is emitted.
C10_FailFast ==
  (Called("ObjectsF") /\ HasUnsupported(argFormat) /\ Returned)
    => result.err # ""

(***************************************************************************)
(* The call as one function of its arguments: what objects returns when    *)
(* "range m" takes the keys of every map in sorted order.                  *)
(***************************************************************************)
Ok(out)   == [st |-> "ok", e |-> "", out |-> out]
Failed(e) == [st |-> "err", e |-> e, out |-> <<>>]
Crash     == [st |-> "panic", e |-> "", out |-> <<>>]

\* run r, and rest after it unless r returned an error or panicked
Then(r, rest) ==
  IF r.st # "ok" THEN r
  ELSE IF rest.st # "ok" THEN rest
  ELSE Ok(r.out \o rest.out)

SortedKeys(S) == SelectSeq(KeyOrder, LAMBDA k : k \in S)

RECURSIVE WalkDiff(_, _, _, _)
RECURSIVE WalkStruct(_, _, _, _, _, _)
RECURSIVE WalkSequence(_, _, _, _, _, _)
RECURSIVE WalkMap(_, _, _, _, _, _)

WalkAtom(t, v1, v2, p) ==
  IF atomPanics(v1, v2) THEN Crash
  ELSE IF atomTemplate(v1, v2) = "" THEN Ok(<<>>)
  ELSE IF ExecuteFails(t[atomTemplate(v1, v2)], atomData(p, v1, v2))
    THEN Failed("template: execute")
  ELSE Ok(<<Execute(t[atomTemplate(v1, v2)], atomData(p, v1, v2))>>)

WalkStruct(t, v1, v2, p, i, n) ==
  IF i >= n THEN Ok(<<>>)
  ELSE IF structPanics(v1, v2, i) THEN Crash
  ELSE Then(WalkDiff(t, structF1(v1, v2, i), structF2(v1, v2, i),
                     Append(p, "." \o structName(v1, v2, i))),
            WalkStruct(t, v1, v2, p, i + 1, n))

WalkSequence(t, v1, v2, p, i, n) ==
  IF i >= n THEN Ok(<<>>)
  ELSE IF seqPanics(v1, v2, i) THEN Crash
  ELSE Then(WalkDiff(t, seqElem1(v1, v2, i), seqElem2(v1, v2, i),
                     Append(p, "[" \o IntStr(i) \o "]")),
            WalkSequence(t, v1, v2, p, i + 1, n))

WalkMap(t, v1, v2, p, m, keys) ==
  IF keys = <<>> THEN Ok(<<>>)
  ELSE Then(WalkDiff(t, mapElem1(v1, m[Head(keys)], Head(keys)),
                     mapElem2(v2, m[Head(keys)], Head(keys)),
                     Append(p, mapSegment(Head(keys)))),
            WalkMap(t, v1, v2, p, m, Tail(keys)))

WalkDiff(t, v1, v2, p) ==
  IF IsNilPtr(v1) /\ IsNilPtr(v2) THEN Crash
  ELSE CASE diffBranch(diffKind(v1, v2)) = "diffStruct" ->
              WalkStruct(t, v1, v2, p, 0, structFields(v1, v2))
         [] diffBranch(diffKind(v1, v2)) = "diffSequence" ->
              IF seqEnterPanics(v1, v2) THEN Crash
              ELSE WalkSequence(t, v1, v2, p, 0, longest(v1, v2))
         [] diffBranch(diffKind(v1, v2)) = "diffMap" ->
              IF alignPanics(v1, v2) THEN Crash
              ELSE WalkMap(t, v1, v2, p, alignMapKeys(v1, v2),
                           SortedKeys(DOMAIN alignMapKeys(v1, v2)))
         [] OTHER -> WalkAtom(t, v1, v2, p)

\* objects(f, b, a)
Expected(f, b, a) ==
  IF isObjPanics(b, a) THEN Crash
  ELSE IF isObj(b, a) # "" THEN Failed(isObj(b, a))
  ELSE IF sameKind(b, a) # "" THEN Failed(sameKind(b, a))
  ELSE IF sameNamedType(b, a) # "" THEN Failed(sameNamedType(b, a))
  ELSE IF ParseFails(f.Change) THEN Failed("template: change")
  ELSE IF ParseFails(f.Add) THEN Failed("template: add")
  ELSE IF ParseFails(f.Delete) THEN Failed("template: delete")
  ELSE LET r == WalkDiff([change |-> f.Change, add |-> f.Add, delete |-> f.Delete],
                         b, a, <<>>)
       IN  [r EXCEPT !.out = objectsChanges(r.out, r.e)]

\* how the call ended, once it has
Ended    == pc \in {"done", "panic"}
Observed == IF Crashed THEN Crash
            ELSE [st  |-> IF result.err = "" THEN "ok" ELSE "err",
                  e   |-> result.err,
                  out |-> result.changes]

\* the same way of ending and the same changes, in any order
SameOutcome(x, y) == x.st = y.st /\ x.e = y.e /\ SeqBag(x.out) = SeqBag(y.out)

\* the format Objects hands to objects
DefaultFormat == Format(DefaultChange, DefaultAdd, DefaultDelete)

\* C11: no partial results: when rendering fails at a leaf, ObjectsF returns a
\* nil change list together with the error, also when earlier leaves of the
\* call were rendered; a non-nil change list comes only with a nil error.
C11_NoPartialResults ==
  (Called("ObjectsF") /\ Returned)
    => /\ err = "template: execute"
            => result = [changes |-> <<>>, err |-> "template: execute"]
       /\ result.changes # <<>> => result.err = ""

\* C11 witness: the differ had rendered a leaf when a later leaf failed to
\* render; the call returned the error and no change
C11_Witness ==
  /\ Called("ObjectsF") /\ Returned
  /\ err = "template: execute"
  /\ changes # <<>>
  /\ result = [changes |-> <<>>, err |-> "template: execute"]

\* C12: default fallback: a template left empty in ObjectsF's format is the
\* default one from the first step on, so its leaves are rendered as Objects
\* renders them; ObjectsF(Format{}, before, after) ends as Objects(before,
\* after) does: the same changes, the same error, the same crash.
C12_DefaultFallback ==
  /\ (Called("ObjectsF") /\ pc # "idle")
       => /\ argFormat.Change = <<>> => format.Change = DefaultChange
          /\ argFormat.Add = <<>> => format.Add = DefaultAdd
          /\ argFormat.Delete = <<>> => format.Delete = DefaultDelete
  /\ \* Objects, and ObjectsF with Format{}, on the arguments both are called with
     (Ended /\ (Called("Objects") \/ argFormat = NoFormat)
        /\ before \in FUniverse /\ after \in FUniverse)
       => SameOutcome(Observed, Expected(DefaultFormat, before, after))

\* C12 witness: ObjectsF with the empty format returned the changes of two
\* configs in the default wording
C12_Witness ==
  /\ Called("ObjectsF") /\ Returned /\ argFormat = NoFormat
  /\ before.kind = "struct" /\ after.kind = "struct"
  /\ Len(result.changes) = 3
  /\ result.changes[1] = ChangedLeaf(".Debug", before.fields[1].v, after.fields[1].v)

\* a leaf: its kind, its path and its two sides (NilPtr for a missing one)
Leaf(kind, name, x, y) == [kind |-> kind, name |-> name, x |-> x, y |-> y]
NoLeaf == Leaf("", "", NilPtr, NilPtr)

\* the leaves of two flat records or two flat sequences, in traversal order
FlatLeaves(a, b) ==
  IF a.kind = "struct"
    THEN SelectSeq([i \in 1..Len(a.fields) |->
                      IF a.fields[i].v # b.fields[i].v
                        THEN Leaf("change", "." \o a.fields[i].name,
                                  a.fields[i].v, b.fields[i].v)
                        ELSE NoLeaf],
                   LAMBDA l : l # NoLeaf)
    ELSE SelectSeq([j \in 1..Max(Len(a.elems), Len(b.elems)) |->
                      IF j > Len(a.elems) THEN Leaf("add", "[" \o IntStr(j - 1) \o "]",
                                                    NilPtr, b.elems[j])
                      ELSE IF j > Len(b.elems)
                        THEN Leaf("delete", "[" \o IntStr(j - 1) \o "]", a.elems[j], NilPtr)
                      ELSE IF a.elems[j] # b.elems[j]
                        THEN Leaf("change", "[" \o IntStr(j - 1) \o "]", a.elems[j], b.elems[j])
                      ELSE NoLeaf],
                   LAMBDA l : l # NoLeaf)

\* the template of the format that is bound to a kind of leaf
Bound(f, kind) ==
  CASE kind = "change" -> IF f.Change = <<>> THEN DefaultChange ELSE f.Change
    [] kind = "add"    -> IF f.Add = <<>> THEN DefaultAdd ELSE f.Add
    [] OTHER           -> IF f.Delete = <<>> THEN DefaultDelete ELSE f.Delete

\* a side as a template shows it: nothing for a missing side
Side(v) == IF v.kind = "absent" THEN "" ELSE Shown(v)

\* a template's output for a leaf, placeholder by placeholder
RenderLeaf(tpl, l) ==
  Join([i \in 1..Len(tpl) |->
          CASE tpl[i] = FieldRef("Name")   -> l.name
            [] tpl[i] = FieldRef("Before") -> Side(l.x)
            [] tpl[i] = FieldRef("After")  -> Side(l.y)
            [] OTHER                       -> tpl[i].s], "")

\* every template of the format parses and uses Name, Before and After only
Renders(f) ==
  /\ ~HasUnsupported(f)
  /\ ~ParseFails(f.Change) /\ ~ParseFails(f.Add) /\ ~ParseFails(f.Delete)

\* C13: each leaf is rendered with the template bound to its own kind (the
\* changed leaves with Change, the added with Add, the deleted with Delete);
\* a format whose templates omit Name yields the same leaves in the same
\* order, without the path.
C13_BoundTemplate ==
  (Called("ObjectsF") /\ Renders(argFormat)
     /\ (FlatRecords(before, after) \/ FlatSequences(before, after)))
    => /\ ~Crashed
       /\ Returned
            => /\ ReturnedOk([i \in 1..Len(FlatLeaves(before, after)) |->
                                RenderLeaf(Bound(argFormat, FlatLeaves(before, after)[i].kind),
                                           FlatLeaves(before, after)[i])])
               /\ argFormat = Format(Arrow, Arrow, Arrow)
                    => result.changes =
                         [i \in 1..Len(FlatLeaves(before, after)) |->
                            Side(FlatLeaves(before, after)[i].x) \o " --> "
                              \o Side(FlatLeaves(before, after)[i].y)]

\* C13 witness: with three different templates a changed leaf and then an
\* added leaf were rendered, each by its own template
C13_Witness ==
  /\ Called("ObjectsF") /\ Returned
  /\ argFormat = Format(ColonAfter, ColonBoth, ColonBefore)
  /\ before = SliceV("", <<IntV(0)>>)
  /\ after = SliceV("", <<IntV(1), IntV(0)>>)
  /\ result = [changes |-> <<"[0]: 1", "[1]: 0">>, err |-> ""]

\* C13 witness of the templates without Name: the three changes of two configs
C13_WitnessArrow ==
  /\ Called("ObjectsF") /\ Returned
  /\ argFormat = Format(Arrow, Arrow, Arrow)
  /\ result.changes = <<"true --> false", "\"hi\" --> \"there\"", "0 --> 1">>

\* structural equality of two atomic values: two pointers are equal when
\* their targets are
DeepEqual(x, y) ==
  IF x.kind = "ptr" /\ y.kind = "ptr" THEN x.target = y.target ELSE x = y

\* one changed leaf per field whose two values are structurally unequal
DeepRecordLeaves(a, b) ==
  NonEmpty([i \in 1..Len(a.fields) |->
              IF ~DeepEqual(a.fields[i].v, b.fields[i].v)
                THEN ChangedLeaf("." \o a.fields[i].name, a.fields[i].v, b.fields[i].v)
                ELSE ""])

\* C14: with both sides of an atomic leaf present a changed leaf is emitted
\* if and only if the two values are structurally unequal: two distinct
\* pointers whose targets are equal produce no leaf.
C14_DeepEquality ==
  (Called("Objects") /\ FlatRecords(before, after) /\ Returned)
    => ReturnedOk(DeepRecordLeaves(before, after))

\* some node of v is a map
RECURSIVE HasMap(_)
HasMap(v) ==
  CASE v.kind = "struct" -> \E i \in 1..Len(v.fields) : HasMap(v.fields[i].v)
    [] v.kind \in {"slice", "array"} -> \E i \in 1..Len(v.elems) : HasMap(v.elems[i])
    [] v.kind = "map" -> TRUE
    [] OTHER -> FALSE

\* the format of the call, as a function of its arguments
CallFormat ==
  Format(Bound(argFormat, "change"), Bound(argFormat, "add"), Bound(argFormat, "delete"))

\* the call ended as the function Expected of its arguments says: with the
\* same changes in any order, and in the same order when there is no map
Determined ==
  /\ SameOutcome(Observed, Expected(CallFormat, before, after))
  /\ (~HasMap(before) /\ ~HasMap(after))
       => Observed = Expected(CallFormat, before, after)

\* C15: determinism: every call with the same (format, before, after) ends
\* in the same way, with the same multiset of changes and the same error,
\* in whatever order the keys of a map are taken and whatever call ran
\* before; without a map the two lists are identical.
C15_Determinism == Ended => Determined

\* C15, for arguments whose leaves Go can all compare: the same statement
C15_DeterminismComparable ==
  (Ended /\ ~HasUncomparable(before) /\ ~HasUncomparable(after)) => Determined

\* two data structures of one kind
SameKindObjects(a, b) == IsObject(a) /\ IsObject(b) /\ a.kind = b.kind

\* the call was rejected by the check of the type names
NameRejected == Returned /\ result = [changes |-> <<>>, err |-> "objects must be same type"]

\* C16, as the code has it: the type-name check rejects every pair of
\* arguments of one kind whose declared type names differ - records, maps
\* and sequences alike, a named type against an anonymous one included -
\* before any traversal; a pair with equal names (two anonymous types, or
\* one name) passes it.
C16_NameCheck ==
  (Called("Objects") /\ SameKindObjects(before, after))
    => /\ TypeName(before) # TypeName(after)
            => /\ ~Crashed
               /\ ~Traversing
               /\ Returned => NameRejected
       /\ TypeName(before) = TypeName(after)
            => /\ ~NameRejected
               /\ pc \notin {"idle", "objects"} => Traversing \/ Ended

\* C16 witness: a named and an anonymous slice were rejected for their names
C16_Witness ==
  /\ Called("Objects") /\ NameRejected
  /\ before.kind = "slice" /\ after.kind = "slice"
  /\ before.name = "IntList" /\ after.name = ""

\* C16 witness: a config and an anonymous record were rejected
C16_WitnessAnonymous ==
  /\ Called("Objects") /\ NameRejected
  /\ before.kind = "struct" /\ after.kind = "struct"
  /\ before.name = "config" /\ after.name = ""

\* C16 witness: two anonymous records of different field lists passed
C16_WitnessPassed ==
  /\ Called("Objects") /\ pc = "parse"
  /\ before.kind = "struct" /\ after.kind = "struct"
  /\ before.name = "" /\ after.name = "" /\ before # after

\* C16: the type-name check rejects only pairs of named records whose names
\* differ: a pair with an anonymous record, and a pair of maps or of
\* sequences of one kind, passes validation whatever the type names are.
C16_RecordsOnly ==
  (Called("Objects") /\ SameKindObjects(before, after)
     /\ (before.kind # "struct" \/ before.name = "" \/ after.name = ""))
    => ~NameRejected

\* at least one of the two sides of a call is present
OneSidePresent(f) == ~(IsNilPtr(f.v1) /\ IsNilPtr(f.v2))

\* C17: at every node the traversal visits - every call of diff and of the
\* functions it dispatches to, so every atomic comparison - at least one of
\* the two sides is present, whatever the two arguments are.
C17_OneSidePresent == \A j \in 1..Len(stack) : OneSidePresent(stack[j])

\* C17 witness: diff was called for the key of a map that only after has,
\* and diffAtom is about to render it as added
C17_Witness ==
  /\ Running("diffAtom", "enter")
  /\ Len(stack) = 2
  /\ stack[1].fn = "diffMap"
  /\ IsNilPtr(Top.v1) /\ ~IsNilPtr(Top.v2)

\* structural equality: the same map keys, the same sequence lengths, the
\* same fields and the same leaf values
RECURSIVE StructurallyEqual(_, _)
StructurallyEqual(a, b) ==
  /\ a.kind = b.kind
  /\ CASE a.kind = "struct" ->
            /\ a.name = b.name
            /\ Len(a.fields) = Len(b.fields)
            /\ \A i \in 1..Len(a.fields) :
                 /\ a.fields[i].name = b.fields[i].name
                 /\ StructurallyEqual(a.fields[i].v, b.fields[i].v)
       [] a.kind \in {"slice", "array"} ->
            /\ a.name = b.name
            /\ Len(a.elems) = Len(b.elems)
            /\ \A i \in 1..Len(a.elems) : StructurallyEqual(a.elems[i], b.elems[i])
       [] a.kind = "map" ->
            /\ a.name = b.name
            /\ DOMAIN a.m = DOMAIN b.m
            /\ \A k \in DOMAIN a.m : StructurallyEqual(a.m[k], b.m[k])
       [] OTHER -> DeepEqual(a, b)

\* C18: completeness: when Objects returns no error and an empty list the
\* two arguments are structurally equal; a map key or sequence element on one
\* side only yields a change, also when its value is an empty record, map or
\* sequence.  (Stated for two arguments of one shape.)
C18_Completeness ==
  (Called("Objects") /\ SameShape(before, after) /\ Returned /\ ReturnedOk(<<>>))
    => StructurallyEqual(before, after)

\* the shape of a value: record, map, sequence or atomic
ShapeOf(v) ==
  CASE v.kind = "struct"             -> "record"
    [] v.kind = "map"                -> "map"
    [] v.kind \in {"slice", "array"} -> "sequence"
    [] OTHER                         -> "atomic"

FieldList(v) == [i \in 1..Len(v.fields) |-> v.fields[i].name]

\* the two sides of a call, when both are present, have one shape and, for
\* records, one field list
Conforming(f) ==
  (~IsNilPtr(f.v1) /\ ~IsNilPtr(f.v2))
    => /\ ShapeOf(f.v1) = ShapeOf(f.v2)
       /\ ShapeOf(f.v1) = "record" => FieldList(f.v1) = FieldList(f.v2)

\* the call crashed in a container both of whose sides are present
CrashedInAccess ==
  /\ Crashed
  /\ stack # <<>>
  /\ Top.fn \in {"diffStruct", "diffSequence", "diffMap"}
  /\ ~IsNilPtr(Top.v1) /\ ~IsNilPtr(Top.v2)

\* C19: once validation has passed, at every visited node where both sides
\* are present the two sides have the same shape and, for records, the same
\* field list, so every access made on the after side by the before side's
\* shape and field count is defined; also for two anonymous records.
C19_DefinedAccess ==
  Called("Objects")
    => /\ \A j \in 1..Len(stack) : Conforming(stack[j])
       /\ ~CrashedInAccess

\* C19, for two anonymous records alone
C19_AnonymousRecords ==
  (Called("Objects") /\ before.kind = "struct" /\ after.kind = "struct"
     /\ before.name = "" /\ after.name = "")
    => ~CrashedInAccess

====
